---- MODULE Spec2Model ----
(***************************************************************************)
(* stravaldi: the token lifecycle and the activity cache synchronisation   *)
(* of update_strava_activities (main.py), over the SqliteStorage tables    *)
(* (storage.py) and the StravaClient requests (strava.py).                 *)
(*                                                                         *)
(* One invocation of the program is one run of update_strava_activities    *)
(* for the user args.id; invocations do not overlap.  The remote service   *)
(* is the environment: every response (status, payload, listing) is drawn  *)
(* from a small set.                                                       *)
(*                                                                         *)
(* TokenSpec, StoreSpec and ExportSpec call the operations of the store    *)
(* and the export directly, in any order.                                  *)
(***************************************************************************)
EXTENDS Integers, Sequences, FiniteSets

VARIABLES
    now,            \* datetime.datetime.now().timestamp()
    issued,         \* number of token payloads the remote service has issued
    remote,         \* the state of the records of the remote service
    access_tokens,  \* committed rows of table access_tokens, in rowid order
    refresh_tokens, \* committed rows of table refresh_tokens, in rowid order
    activities,     \* committed rows of table activities, in rowid order
    athletes,       \* committed rows of table athletes, in rowid order
    session,        \* SqliteStorage._cur is set: a guarded session is open
    pending,        \* activity rows inserted on the session's connection, not committed
    pc,             \* position of the run of update_strava_activities
    uid,            \* args.id of the run
    branch,         \* token state the run found: NoToken, ValidToken, ExpiredToken
    found,          \* what lookup_access_token(args.id) returned at main.py:103
    redirect_url,   \* cl_acquire_token.redirect_url: the query of the URL pasted
    token_data,     \* the local token_data of update_strava_activities
    err,            \* the exception that ended the run, "" when none
    listed,         \* the listing pages the remote service has returned in this run
    resp_data,      \* _paginated_results.resp_data, the current page
    page_num,       \* _paginated_results.page_num
    idx,            \* position of the generator inside the current page
    activity,       \* the loop variable of main.py:119
    trace,          \* calls the run has made on the remote client and the store
    stored,         \* activity ids store_activity was called with in this run
    last_athlete,   \* per athlete_id, the arguments of the latest store_athlete call
    last_token,     \* per user, the token_data of the latest store_token call
    ret,            \* what the latest direct call of a storage operation returned
    runs,           \* invocations of the program so far
    con,            \* SqliteStorage._con, the connection the guarded session opened
    open_cons,      \* connections _get_curs opened per call that were never closed
    txn,            \* token and athlete statements executed in the session, not committed
    ncalls,         \* direct calls of storage operations so far
    export          \* what the latest call of get_strava_activities produced

vars == <<now, issued, remote, access_tokens, refresh_tokens, activities, athletes,
          session, pending, pc, uid, branch, found, redirect_url, token_data, err,
          listed, resp_data, page_num, idx, activity, trace, stored, last_athlete,
          last_token, ret, runs, con, open_cons, txn, ncalls, export>>

\* the tables and the clock, and the variables of one run
store_vars == <<access_tokens, refresh_tokens, activities, athletes, session, pending>>
run_vars == <<pc, uid, branch, found, redirect_url, token_data, err, listed,
              resp_data, page_num, idx, activity, trace, stored, runs>>

\* the connections of the store and the results of the direct calls of its
\* operations; they are followed under StoreSpec and ExportSpec, where the
\* operations are called in any order, and stay as they are in the runs of
\* update_strava_activities
con_vars == <<con, open_cons, txn, ncalls, export>>

\* ------------------------------------------------------------------ bounds
MaxTime == 1        \* the clock runs 0..MaxTime
MaxTokens == 2      \* token payloads the remote service issues
MaxPages == 2       \* non-empty pages of a remote listing
MaxRuns == 2        \* invocations of the program
TokenLife == 0      \* clock units a token issued by the remote service stays valid
MaxCalls == 3       \* direct calls of storage operations

Users == {"u1", "u2"}
AthleteIds == {1, 2}
ActivityIds == {1, 2}
Versions == {1, 2}              \* states of a remote record
Scopes == {"read_all"}

\* ------------------------------------------------------------------ values
None == [ty |-> "None"]
PyStr(s) == [ty |-> "str", v |-> s]
PyList(l) == [ty |-> "list", v |-> l]

\* Python's ==: values of different types are unequal
PyEq(a, b) == a.ty = b.ty /\ (a.ty = "None" \/ a.v = b.v)

\* json.dumps / json.loads: the stored text and the value parsed back from it
json_dumps(x) == [json |-> x]
json_loads(s) == s.json

\* ------------------------------------------------------------------ storage.py
\* cur.fetchone() after a SELECT without ORDER BY: no row, or whichever matching
\* row the engine surfaces first (the order is not fixed by the query)
fetchone(rows) ==
    IF rows = <<>> THEN {None} ELSE {rows[i] : i \in DOMAIN rows}

\* SELECT * FROM <token table> WHERE user_id=?
select_user(table, user_id) == SelectSeq(table, LAMBDA r : r.user_id = user_id)

\* SELECT * FROM activities WHERE (id=? AND user_id=?)
select_activity(table, activity_id, user_id) ==
    SelectSeq(table, LAMBDA r : r.id = activity_id /\ r.user_id = user_id)

\* the parameters _close_curs declares besides self, and the arguments
\* lookup_refresh_token passes to it
close_curs_params == <<"cur">>
close_curs_args_at_lookup_refresh == <<>>

\* lookup_access_token: the values it can return
lookup_access_token(table, user_id) ==
    { IF row = None THEN None
      ELSE [athlete_id |-> row.athlete_id, scope |-> row.scope,
            token |-> json_loads(row.raw)] :
      row \in fetchone(select_user(table, user_id)) }

\* lookup_refresh_token: the outcomes it can have, [raised, value]
lookup_refresh_token(table, user_id) ==
    { IF row = None THEN [raised |-> "", value |-> None]
      ELSE IF Len(close_curs_args_at_lookup_refresh) # Len(close_curs_params)
      THEN [raised |-> "TypeError", value |-> None]
      ELSE [raised |-> "",
            value |-> [athlete_id |-> row.athlete_id, scope |-> row.scope,
                       token |-> json_loads(row.raw)]] :
      row \in fetchone(select_user(table, user_id)) }

\* store_token: the row inserted into refresh_tokens and the one into access_tokens
refresh_token_row(user_id, athlete_id, td, scope) ==
    [user_id |-> user_id, athlete_id |-> athlete_id, token |-> td.refresh_token,
     scope |-> scope, raw |-> json_dumps(td)]

access_token_row(user_id, athlete_id, td, scope) ==
    [user_id |-> user_id, athlete_id |-> athlete_id, expires_at |-> td.expires_at,
     token |-> td.refresh_token, scope |-> scope, raw |-> json_dumps(td)]

\* store_athlete without the ON CONFLICT clause, on a table without the constraint
store_athlete_insert(table, athlete, user_id, ts) ==
    Append(table, [athlete_id |-> athlete.id, user_id |-> user_id,
                   last_updated |-> ts, raw |-> json_dumps(athlete)])

\* store_athlete: INSERT ... ON CONFLICT(athlete_id) DO UPDATE
store_athlete(table, athlete, user_id, ts) ==
    LET row == [athlete_id |-> athlete.id, user_id |-> user_id,
                last_updated |-> ts, raw |-> json_dumps(athlete)]
    IN  IF \E i \in DOMAIN table : table[i].athlete_id = athlete.id
        THEN [i \in DOMAIN table |->
                 IF table[i].athlete_id = athlete.id
                 THEN [table[i] EXCEPT !.user_id = row.user_id,
                                       !.last_updated = row.last_updated,
                                       !.raw = row.raw]
                 ELSE table[i]]
        ELSE Append(table, row)

\* store_activity: the row inserted into activities
activity_row(act, user_id, ts) ==
    [id |-> act.id, user_id |-> user_id, last_updated |-> ts, raw |-> json_dumps(act)]

\* get_activity: the values it can return
get_activity(table, activity_id, user_id) ==
    { IF row = None THEN None
      ELSE [raw |-> json_loads(row.raw), last_updated |-> row.last_updated] :
      row \in fetchone(select_activity(table, activity_id, user_id)) }

\* the rows a statement on the current cursor sees (_get_curs): inside a guarded
\* session the session's connection, with its own uncommitted inserts
visible_activities == IF session THEN activities \o pending ELSE activities

\* _get_curs: the connection a statement runs on, the session's (self._cur is
\* set) or one opened for the call
get_curs(in_session) == IF in_session THEN "session" ELSE "own"

\* _close_curs that commits and closes inside a guarded session too
close_curs_always(in_session) == [commits |-> 1, closed |-> TRUE]

\* _close_curs(cur): outside a guarded session the connection of cur is
\* committed and closed, inside one nothing is done
close_curs(in_session) ==
    IF ~in_session THEN [commits |-> 1, closed |-> TRUE]
    ELSE [commits |-> 0, closed |-> FALSE]

\* a return or raise that leaves the operation before its _close_curs call
not_closed == [commits |-> 0, closed |-> FALSE]

\* a connection that is closed without a commit and commits all the same
close_uncommitted_commit(committed, uncommitted) == committed \o uncommitted

\* a connection that is dropped without _close_curs is closed by its finalizer:
\* the statements it has not committed are rolled back
close_uncommitted(committed, uncommitted) == committed

\* INSERT OR REPLACE on a table with one row per user
insert_or_replace(table, rows) ==
    SelectSeq(table, LAMBDA r : \A i \in DOMAIN rows : rows[i].user_id # r.user_id) \o rows

\* cur.execute("INSERT INTO ..."), storage.py:141 and 144, on a table without a
\* uniqueness constraint: the rows are appended
insert(table, rows) == table \o rows

\* a token payload without its expires_at
without_expires_at(td) == [k \in DOMAIN td \ {"expires_at"} |-> td[k]]

\* store_token, storage.py:139-147: the exception raised, the rows its two
\* inserts have executed (rt into refresh_tokens, at into access_tokens) and
\* what its _close_curs call did; is_locked: another connection holds the
\* write lock of the database file
store_token(user_id, athlete_id, td, scope, in_session, is_locked) ==
    IF "refresh_token" \notin DOMAIN td
    THEN [raised |-> "KeyError", rt |-> <<>>, at |-> <<>>, cc |-> not_closed]
    ELSE IF is_locked
    THEN [raised |-> "OperationalError", rt |-> <<>>, at |-> <<>>, cc |-> not_closed]
    ELSE IF "expires_at" \notin DOMAIN td
    THEN [raised |-> "KeyError",
          rt |-> <<refresh_token_row(user_id, athlete_id, td, scope)>>,
          at |-> <<>>, cc |-> not_closed]
    ELSE [raised |-> "",
          rt |-> <<refresh_token_row(user_id, athlete_id, td, scope)>>,
          at |-> <<access_token_row(user_id, athlete_id, td, scope)>>,
          cc |-> close_curs(in_session)]

\* __exit__ that commits on a normal exit only
exit_commit_rollback(committed, uncommitted, exc) ==
    IF exc # "" THEN committed ELSE committed \o uncommitted

\* __exit__(*args): commit and close, whatever exception (exc) ends the scope
exit_commit(committed, uncommitted, exc) == committed \o uncommitted

\* ------------------------------------------------------------------ strava.py
\* the token payload the remote service issues as its k-th
TokenPayload(k, expires_at, athlete_id) ==
    [access_token |-> k, refresh_token |-> k, expires_at |-> expires_at,
     athlete |-> [id |-> athlete_id]]

\* the pages the listing endpoint can answer with: the empty page, a page of two
\* records and a page of one, which the other page lists too
Pages == {<<>>, <<1, 2>>, <<2>>}

\* page_num += 2
next_page_skip(n) == n + 2

\* _paginated_results: page_num = 1; page_num += 1; if not resp_data: break
first_page == 1
last_page(resp) == resp = <<>>
next_page(n) == n + 1

\* ------------------------------------------------------------------ main.py
Call(op, arg, ok) == [op |-> op, arg |-> arg, ok |-> ok]

\* the query of the redirect URL the user pastes: "" is a parameter that is absent
Urls == [error : {"", "access_denied"}, code : {"", "c"},
         state : {""} \cup Users, scope : {""} \cup Scopes]

\* urllib.parse.parse_qs: every parameter present maps to the list of its values
parse_qs(q) == [k \in {k \in DOMAIN q : q[k] # ""} |-> <<q[k]>>]

\* dict.get(key, None)
dict_get(d, k) == IF k \in DOMAIN d THEN PyList(d[k]) ELSE None

\* handle_access_response(url), the remote answering the exchange with status ok
\* and payload td: the exception raised, the calls made, the store_token arguments
handle_access_response(q, ok, td) ==
    LET get_params == parse_qs(q)
        exchange == Call("exchange_token", 0, ok)
    IN  IF PyEq(dict_get(get_params, "error"), PyStr("access_denied"))
        THEN [raised |-> "Exception", calls |-> <<>>, store |-> None]
        ELSE IF "code" \notin DOMAIN get_params
        THEN [raised |-> "KeyError", calls |-> <<>>, store |-> None]
        ELSE IF ~ok
        THEN [raised |-> "HTTPError", calls |-> <<exchange>>, store |-> None]
        ELSE IF "state" \notin DOMAIN get_params \/ "scope" \notin DOMAIN get_params
        THEN [raised |-> "KeyError", calls |-> <<exchange>>, store |-> None]
        ELSE [raised |-> "", calls |-> <<exchange, Call("store_token", 0, TRUE)>>,
              store |-> [user_id |-> get_params["state"][1],
                         athlete_id |-> td.athlete.id,
                         token_data |-> td,
                         scope |-> get_params["scope"][1]]]

\* the branch taken with a missing token handled like an expired one
token_state_none_expired(td, ts) ==
    IF td = None THEN "ExpiredToken"
    ELSE IF ts > td.token.expires_at THEN "ExpiredToken"
    ELSE "ValidToken"

\* the branch taken when a token counts as expired at its expires_at already
token_state_expired_at(td, ts) ==
    IF td = None THEN "NoToken"
    ELSE IF ts >= td.token.expires_at THEN "ExpiredToken"
    ELSE "ValidToken"

\* update_strava_activities, main.py:104-112: the branch taken on the looked-up token
token_state(td, ts) ==
    IF td = None THEN "NoToken"
    ELSE IF ts > td.token.expires_at THEN "ExpiredToken"
    ELSE "ValidToken"

\* the run going straight to the listing after cl_acquire_token
after_acquire_listing(td, ts) == "page"

\* where the run continues after cl_acquire_token returned td (main.py:106, 113)
after_acquire(td, ts) == "athlete"

\* a cache test that never hits
cache_hit_never(cached) == FALSE

\* main.py:121, "if not cached_activity": what get_activity returned counts as a hit
cache_hit(cached) == cached # None

\* ---- the export: storage.get_activities and main.get_strava_activities
\* the account ids the export is run for, and an id as the sequence of its
\* characters (what sqlite3 binds when the id itself is passed as the parameters)
ExportIds == Users \cup {"7"}
Chars(id) == CASE id = "u1" -> <<"u", "1">>
               [] id = "u2" -> <<"u", "2">>
               [] OTHER -> <<id>>

\* private notes, as lines of characters: "knee:3.5\nback:1", "not a pain note"
\* (shortened to "no pain"), "Knee: 2" and "knee:bad"
KneeBack == << <<"k", "n", "e", "e", ":", "3", ".", "5">>, <<"b", "a", "c", "k", ":", "1">> >>
NoPainNote == << <<"n", "o", " ", "p", "a", "i", "n">> >>
Notes == {KneeBack, NoPainNote,
          << <<"K", "n", "e", "e", ":", " ", "2">> >>,
          << <<"k", "n", "e", "e", ":", "b", "a", "d">> >>}

Digits == {"0", "1", "2", "3", "4", "5", "6", "7", "8", "9"}
DigitVal(c) == CASE c = "0" -> 0 [] c = "1" -> 1 [] c = "2" -> 2 [] c = "3" -> 3
                 [] c = "4" -> 4 [] c = "5" -> 5 [] c = "6" -> 6 [] c = "7" -> 7
                 [] c = "8" -> 8 [] OTHER -> 9

RECURSIVE Num(_)
Num(ds) == IF ds = <<>> THEN 0
           ELSE 10 * Num(SubSeq(ds, 1, Len(ds) - 1)) + DigitVal(ds[Len(ds)])

RECURSIVE Strip(_)
Strip(cs) == IF cs # <<>> /\ cs[1] = " " THEN Strip(Tail(cs))
             ELSE IF cs # <<>> /\ cs[Len(cs)] = " " THEN Strip(SubSeq(cs, 1, Len(cs) - 1))
             ELSE cs

RECURSIVE StripZeros(_)
StripZeros(ds) == IF ds # <<>> /\ ds[Len(ds)] = "0"
                  THEN StripZeros(SubSeq(ds, 1, Len(ds) - 1)) ELSE ds

\* float(text) for text of digits, one optional point and blanks around: the
\* value as its whole part and its decimals, or ValueError
float(cs) ==
    LET t == Strip(cs)
        dots == {i \in DOMAIN t : t[i] = "."}
        d == IF dots = {} THEN Len(t) + 1 ELSE CHOOSE i \in dots : TRUE
        whole == SubSeq(t, 1, d - 1)
        frac == SubSeq(t, d + 1, Len(t))
    IN  IF /\ Cardinality(dots) <= 1
           /\ \A i \in DOMAIN t : t[i] \in Digits \cup {"."}
           /\ Len(whole) + Len(frac) > 0
        THEN [raised |-> "", whole |-> Num(whole), frac |-> StripZeros(frac)]
        ELSE [raised |-> "ValueError"]

\* str.lower()
lower(cs) == [i \in DOMAIN cs |-> IF cs[i] = "K" THEN "k" ELSE cs[i]]

\* re.findall(r"(.+):(.+)", priv_note): per line (. matches no newline) the
\* greedy match, which splits at the last colon with text on both sides
findall(note) ==
    LET cut(line) == {i \in 2..(Len(line) - 1) : line[i] = ":"}
        last(line) == CHOOSE i \in cut(line) : \A j \in cut(line) : j <= i
        hits == SelectSeq(note, LAMBDA line : cut(line) # {})
    IN  [k \in DOMAIN hits |->
           <<SubSeq(hits[k], 1, last(hits[k]) - 1),
             SubSeq(hits[k], last(hits[k]) + 1, Len(hits[k]))>>]

\* main.py:88-96: the pains map of a private note, keyed by the body part
\* ("pains." + key); an exception in the comprehension leaves it empty
pains_of(priv_note) ==
    LET matches == IF priv_note = <<>> THEN <<>> ELSE findall(priv_note)
        keys == {lower(matches[k][1]) : k \in DOMAIN matches}
        latest(key) == CHOOSE k \in DOMAIN matches :
                          /\ lower(matches[k][1]) = key
                          /\ \A j \in DOMAIN matches : lower(matches[j][1]) = key => j <= k
    IN  IF \E k \in DOMAIN matches : float(matches[k][2]).raised # ""
        THEN <<>>
        ELSE [key \in keys |-> float(matches[latest(key)][2])]

\* storage.get_activities(user_id), storage.py:92-95: cur.execute is given the
\* id itself as its parameters, one binding per character, for a statement with
\* one placeholder; every row is yielded as the tuple (record, last_updated)
get_activities(table, user_id) ==
    IF Len(Chars(user_id)) # 1
    THEN [raised |-> "ProgrammingError", items |-> <<>>]
    ELSE LET rows == SelectSeq(table, LAMBDA r : r.user_id = Chars(user_id)[1])
         IN  [raised |-> "",
              items |-> [i \in DOMAIN rows |->
                           [ty |-> "tuple",
                            v |-> <<json_loads(rows[i].raw), rows[i].last_updated>>]]]

\* the body of the loop of get_strava_activities for one item: record.get
\* exists on a dict only
export_record(record) ==
    IF record.ty # "dict"
    THEN [raised |-> "AttributeError"]
    ELSE LET priv_note == IF "private_note" \in DOMAIN record.v
                          THEN record.v.private_note ELSE <<>>
         IN  [raised |-> "", id |-> record.v.id, pains |-> pains_of(priv_note)]

\* get_strava_activities over the items storage.get_activities yields: the
\* records yielded before the first exception, and that exception
get_strava_activities(gen) ==
    LET out == [i \in DOMAIN gen.items |-> export_record(gen.items[i])]
        bad == {i \in DOMAIN out : out[i].raised # ""}
        stop == IF bad = {} THEN Len(out) + 1
                ELSE CHOOSE i \in bad : \A j \in bad : i <= j
    IN  [raised |-> IF gen.raised # "" THEN gen.raised
                    ELSE IF bad = {} THEN "" ELSE out[stop].raised,
         records |-> SubSeq(out, 1, stop - 1)]

\* an exception leaves update_strava_activities: a guarded session is exited on the way
Raise(e, tr) ==
    /\ pc' = "failed"
    /\ err' = e
    /\ trace' = tr
    /\ activities' = IF session THEN exit_commit(activities, pending, e) ELSE activities
    /\ pending' = <<>>
    /\ session' = FALSE

\* the users are interchangeable, and so are the athletes: the first invocation
\* (and the first direct call) is taken to be u1's, the first token the remote
\* service issues to be athlete 1's
FirstOr(first, x, S) == IF first THEN {x} ELSE S

\* no statement is pending on a session's connection
NoTxn == [refresh_tokens |-> <<>>, access_tokens |-> <<>>, athletes |-> <<>>]

Init ==
    /\ now = 0
    /\ issued = 0
    /\ remote = 1
    /\ access_tokens = <<>>
    /\ refresh_tokens = <<>>
    /\ activities = <<>>
    /\ athletes = <<>>
    /\ session = FALSE
    /\ pending = <<>>
    /\ pc = "idle"
    /\ uid = "u1"
    /\ branch = ""
    /\ found = None
    /\ redirect_url = None
    /\ token_data = None
    /\ err = ""
    /\ listed = <<>>
    /\ resp_data = <<>>
    /\ page_num = 0
    /\ idx = 0
    /\ activity = None
    /\ trace = <<>>
    /\ stored = {}
    /\ last_athlete = [a \in AthleteIds |-> None]
    /\ last_token = [u \in Users |-> None]
    /\ ret = [op |-> "", user_id |-> "", raised |-> "", value |-> None,
              con |-> "", commits |-> 0, closed |-> FALSE]
    /\ runs = 0
    /\ con = [open |-> FALSE, commits |-> 0]
    /\ open_cons = <<>>
    /\ txn = NoTxn
    /\ ncalls = 0
    /\ export = [user_id |-> "", raised |-> "", records |-> <<>>]

\* the clock advances, between two invocations
Tick ==
    /\ pc = "idle"
    /\ now < MaxTime
    /\ now' = now + 1
    /\ UNCHANGED <<issued, remote, store_vars, run_vars, last_athlete, last_token, ret>>
    /\ UNCHANGED con_vars

\* the records of the remote service change, between two invocations
RemoteChange ==
    /\ pc = "idle"
    /\ remote' \in Versions \ {remote}
    /\ UNCHANGED <<now, issued, store_vars, run_vars, last_athlete, last_token, ret>>
    /\ UNCHANGED con_vars

\* the program is started for user u: main.py:103-112 up to the branch
Invoke ==
    /\ pc = "idle"
    /\ runs < MaxRuns
    /\ runs' = runs + 1
    /\ \E u \in FirstOr(runs = 0, "u1", Users) : \E td \in lookup_access_token(access_tokens, u) :
         /\ uid' = u
         /\ found' = td
         /\ token_data' = td
         /\ branch' = token_state(td, now)
         /\ pc' = CASE token_state(td, now) = "NoToken" -> "acquire"
                    [] token_state(td, now) = "ExpiredToken" -> "refresh"
                    [] OTHER -> "athlete"
    /\ trace' = <<Call("lookup_access_token", 0, TRUE)>>
    /\ UNCHANGED <<err, stored, listed, resp_data, page_num, idx, activity, redirect_url>>
    /\ UNCHANGED <<now, issued, remote, store_vars, last_athlete, last_token, ret>>
    /\ UNCHANGED con_vars

\* cl_acquire_token(args.id): the URL prompt, the pasted redirect URL,
\* handle_access_response and the lookup of the stored token
Acquire ==
    /\ pc = "acquire"
    /\ \E q \in Urls, a \in FirstOr(issued = 0, 1, AthleteIds) :
       \E ok \in (IF issued < MaxTokens THEN BOOLEAN ELSE {FALSE}) :
         LET td == TokenPayload(issued + 1, now + TokenLife, a)
             out == handle_access_response(q, ok, td)
             tr == trace \o <<Call("request_access_url", 0, TRUE)>> \o out.calls
             exchanged == \E i \in DOMAIN out.calls :
                             out.calls[i].op = "exchange_token" /\ out.calls[i].ok
         IN  /\ redirect_url' = q
             /\ issued' = IF exchanged THEN issued + 1 ELSE issued
             /\ IF out.raised # ""
                THEN /\ Raise(out.raised, tr)
                     /\ UNCHANGED <<access_tokens, refresh_tokens, token_data, last_token>>
                ELSE LET st == out.store
                         rt == Append(refresh_tokens,
                                      refresh_token_row(st.user_id, st.athlete_id,
                                                        st.token_data, st.scope))
                         at == Append(access_tokens,
                                      access_token_row(st.user_id, st.athlete_id,
                                                       st.token_data, st.scope))
                         tr2 == tr \o <<Call("lookup_access_token", 0, TRUE)>>
                     IN  /\ refresh_tokens' = rt
                         /\ access_tokens' = at
                         /\ last_token' = [last_token EXCEPT ![st.user_id] = st.token_data]
                         /\ \E got \in lookup_access_token(at, uid) :
                              /\ token_data' = got
                              /\ IF got = None
                                 THEN \* unpacking None at main.py:113
                                      Raise("TypeError", tr2)
                                 ELSE /\ pc' = after_acquire(got, now)
                                      /\ trace' = tr2
                                      /\ UNCHANGED <<err, activities, pending, session>>
    /\ UNCHANGED <<now, remote, athletes, uid, branch, found, listed, resp_data, page_num, idx,
                   activity, stored, last_athlete, ret, runs>>
    /\ UNCHANGED con_vars

\* refresh_token(args.id), main.py:54-64
Refresh ==
    /\ pc = "refresh"
    /\ \E res \in lookup_refresh_token(refresh_tokens, uid) :
       \E ok \in (IF issued < MaxTokens THEN BOOLEAN ELSE {FALSE}) :
         LET tr == trace \o <<Call("lookup_refresh_token", 0, res.raised = "")>>
         IN  IF res.raised # "" \/ res.value = None
             THEN \* the lookup raised, or unpacking None at main.py:61 does
                  /\ Raise("TypeError", tr)
                  /\ UNCHANGED <<issued, access_tokens, refresh_tokens, token_data,
                                 last_token>>
             ELSE LET old == res.value
                      tr2 == tr \o <<Call("refresh_token", old.token.refresh_token, ok)>>
                      td == TokenPayload(issued + 1, now + TokenLife, old.athlete_id)
                      rt == Append(refresh_tokens,
                                   refresh_token_row(uid, old.athlete_id, td, old.scope))
                      at == Append(access_tokens,
                                   access_token_row(uid, old.athlete_id, td, old.scope))
                  IN  IF ~ok
                      THEN /\ Raise("HTTPError", tr2)
                           /\ UNCHANGED <<issued, access_tokens, refresh_tokens,
                                          token_data, last_token>>
                      ELSE /\ issued' = issued + 1
                           /\ refresh_tokens' = rt
                           /\ access_tokens' = at
                           /\ last_token' = [last_token EXCEPT ![uid] = td]
                           /\ \E got \in lookup_access_token(at, uid) :
                                token_data' = got
                           /\ pc' = "athlete"
                           /\ trace' = tr2 \o <<Call("store_token", 0, TRUE),
                                                 Call("lookup_access_token", 0, TRUE)>>
                           /\ UNCHANGED <<err, activities, pending, session>>
    /\ UNCHANGED <<now, remote, athletes, uid, branch, found, redirect_url, listed,
                   resp_data, page_num, idx, activity, stored, last_athlete, ret, runs>>
    /\ UNCHANGED con_vars

\* main.py:113-118: the athlete profile of the token is fetched and stored, the
\* guarded session is entered and the generator of sclient.get_activities is created
Athlete ==
    /\ pc = "athlete"
    /\ \E ok \in BOOLEAN :
         LET tok == token_data.token
             tr == trace \o <<Call("get_athlete_info", tok.access_token, ok)>>
             athlete_data == [id |-> tok.athlete.id, v |-> remote]
         IN  IF ~ok
             THEN /\ Raise("HTTPError", tr)
                  /\ UNCHANGED <<athletes, last_athlete, page_num>>
             ELSE /\ athletes' = store_athlete(athletes, athlete_data, uid, now)
                  /\ last_athlete' = [last_athlete EXCEPT ![athlete_data.id] =
                                         [user_id |-> uid, last_updated |-> now,
                                          raw |-> json_dumps(athlete_data)]]
                  /\ trace' = tr \o <<Call("store_athlete", athlete_data.id, TRUE)>>
                  /\ session' = TRUE
                  /\ page_num' = first_page
                  /\ pc' = "page"
                  /\ UNCHANGED <<err, activities, pending>>
    /\ redirect_url' = None
    /\ UNCHANGED <<now, issued, remote, access_tokens, refresh_tokens, uid, branch,
                   found, token_data, listed, resp_data, idx, activity, stored, last_token,
                   ret, runs>>
    /\ UNCHANGED con_vars

\* non-empty pages the remote service has answered with in this run
NonEmpty(ps) == Len(SelectSeq(ps, LAMBDA r : r # <<>>))

\* _paginated_results, strava.py:109-115: one listing page is requested
FetchPage ==
    /\ pc = "page"
    /\ \E ok \in BOOLEAN :
       \E resp \in (IF ok /\ NonEmpty(listed) < MaxPages THEN Pages ELSE {<<>>}) :
         LET tr == trace \o <<Call("page", page_num, ok)>>
         IN  IF ~ok
             THEN /\ Raise("HTTPError", tr)
                  /\ UNCHANGED <<idx, listed, resp_data>>
             ELSE /\ listed' = Append(listed, resp)
                  /\ resp_data' = resp
                  /\ trace' = tr
                  /\ IF last_page(resp)
                     THEN \* the generator ends, the loop ends, the session is exited
                          /\ activities' = exit_commit(activities, pending, "")
                          /\ pending' = <<>>
                          /\ session' = FALSE
                          /\ pc' = "done"
                          /\ UNCHANGED <<err, idx>>
                     ELSE /\ idx' = 1
                          /\ pc' = "detail"
                          /\ UNCHANGED <<err, activities, pending, session>>
    /\ UNCHANGED <<now, issued, remote, access_tokens, refresh_tokens, athletes, uid, branch,
                   found, redirect_url, token_data, page_num, activity, stored, last_athlete,
                   last_token, ret, runs>>
    /\ UNCHANGED con_vars

\* strava.py:118 and 93: the record is yielded and get_activities fetches its detail
FetchDetail ==
    /\ pc = "detail"
    /\ \E ok \in BOOLEAN :
         LET id == resp_data[idx]
             tr == trace \o <<Call("yield", id, TRUE), Call("detail", id, ok)>>
         IN  IF ~ok
             THEN /\ Raise("HTTPError", tr)
                  /\ UNCHANGED activity
             ELSE /\ activity' = [id |-> id]
                  /\ pc' = "check"
                  /\ trace' = tr
                  /\ UNCHANGED <<err, activities, pending, session>>
    /\ UNCHANGED <<now, issued, remote, access_tokens, refresh_tokens, athletes, uid, branch,
                   found, redirect_url, token_data, listed, resp_data, page_num, idx, stored,
                   last_athlete, last_token, ret, runs>>
    /\ UNCHANGED con_vars

\* the generators are resumed for the next record: strava.py:116-119
Advance ==
    IF idx < Len(resp_data)
    THEN /\ idx' = idx + 1
         /\ pc' = "detail"
         /\ UNCHANGED page_num
    ELSE /\ idx' = 0
         /\ page_num' = next_page(page_num)
         /\ pc' = "page"

\* the loop body, main.py:120-127
ProcessActivity ==
    /\ pc = "check"
    /\ \E cached \in get_activity(visible_activities, activity.id, uid) :
         LET tr == trace \o <<Call("get_activity", activity.id, cache_hit(cached))>>
         IN  IF cache_hit(cached)
             THEN /\ Advance
                  /\ trace' = tr
                  /\ UNCHANGED <<err, activities, pending, session, stored>>
             ELSE \E ok \in BOOLEAN :
                    LET tr2 == tr \o <<Call("detail", activity.id, ok)>>
                        full_activity == [id |-> activity.id, v |-> remote]
                    IN  IF ~ok
                        THEN /\ Raise("HTTPError", tr2)
                             /\ UNCHANGED <<idx, page_num, stored>>
                        ELSE /\ pending' = Append(pending,
                                                  activity_row(full_activity, uid, now))
                             /\ stored' = stored \cup {full_activity.id}
                             /\ trace' = tr2 \o <<Call("store_activity", full_activity.id, TRUE)>>
                             /\ Advance
                             /\ UNCHANGED <<err, activities, session>>
    /\ UNCHANGED <<now, issued, remote, access_tokens, refresh_tokens, athletes, uid, branch,
                   found, redirect_url, token_data, listed, resp_data, activity, last_athlete,
                   last_token, ret, runs>>
    /\ UNCHANGED con_vars

\* the process ends, normally or with the exception that left the run
Exit ==
    /\ pc \in {"done", "failed"}
    /\ pc' = "idle"
    /\ uid' = "u1"
    /\ branch' = ""
    /\ found' = None
    /\ redirect_url' = None
    /\ token_data' = None
    /\ err' = ""
    /\ listed' = <<>>
    /\ resp_data' = <<>>
    /\ page_num' = 0
    /\ idx' = 0
    /\ activity' = None
    /\ trace' = <<>>
    /\ stored' = {}
    /\ UNCHANGED <<now, issued, remote, store_vars, last_athlete, last_token, ret, runs>>
    /\ UNCHANGED con_vars

\* ------------------------------------------------- the store, called directly
\* another connection holds the write lock: it executed an insert and was
\* neither committed nor closed
locked == \E i \in DOMAIN open_cons : open_cons[i].refresh_tokens # <<>>

\* the token tables and the athletes as the current cursor sees them
visible_refresh_tokens ==
    IF session THEN refresh_tokens \o txn.refresh_tokens ELSE refresh_tokens
visible_access_tokens ==
    IF session THEN access_tokens \o txn.access_tokens ELSE access_tokens
visible_athletes == IF session THEN txn.athletes ELSE athletes

\* a storage operation is left, by return or raise: cc is what its _close_curs
\* call did (not_closed when it was not reached), rt the refresh-token rows it
\* had inserted; a connection of its own that it did not close stays open
CallReturns(op, user_id, raised, value, cc, rt) ==
    /\ ncalls' = ncalls + 1
    /\ ret' = [op |-> op, user_id |-> user_id, raised |-> raised, value |-> value,
               con |-> get_curs(session), commits |-> cc.commits, closed |-> cc.closed]
    /\ con' = IF session
              THEN [open |-> con.open /\ ~cc.closed, commits |-> con.commits + cc.commits]
              ELSE con
    /\ open_cons' = IF ~session /\ ~cc.closed
                    THEN Append(open_cons, [op |-> op, raised |-> raised,
                                             refresh_tokens |-> rt])
                    ELSE open_cons

\* with storage: __enter__ opens the session's connection
Enter ==
    /\ pc = "idle"
    /\ ~session
    /\ session' = TRUE
    /\ con' = [open |-> TRUE, commits |-> 0]
    /\ txn' = [NoTxn EXCEPT !.athletes = athletes]
    /\ UNCHANGED <<now, issued, remote, access_tokens, refresh_tokens, activities, athletes,
                   pending, run_vars, last_athlete, last_token, ret, open_cons, ncalls,
                   export>>

\* the with block is left, normally or by an exception: __exit__(*args)
ExitSession ==
    /\ pc = "idle"
    /\ session
    /\ \E exc \in {"", ret.raised} :
         /\ refresh_tokens' = exit_commit(refresh_tokens, txn.refresh_tokens, exc)
         /\ access_tokens' = exit_commit(access_tokens, txn.access_tokens, exc)
         /\ activities' = exit_commit(activities, pending, exc)
         /\ athletes' = txn.athletes
    /\ con' = [open |-> FALSE, commits |-> con.commits + 1]
    /\ session' = FALSE
    /\ pending' = <<>>
    /\ txn' = NoTxn
    /\ UNCHANGED <<now, issued, remote, run_vars, last_athlete, last_token, ret, open_cons,
                   ncalls, export>>

\* the finalizer of a dropped connection closes it
Finalize ==
    /\ \E i \in DOMAIN open_cons :
         /\ refresh_tokens' = close_uncommitted(refresh_tokens, open_cons[i].refresh_tokens)
         /\ open_cons' = [j \in 1..(Len(open_cons) - 1) |->
                             IF j < i THEN open_cons[j] ELSE open_cons[j + 1]]
    /\ UNCHANGED <<now, issued, remote, access_tokens, activities, athletes, session,
                   pending, run_vars, last_athlete, last_token, ret, con, txn, ncalls,
                   export>>

\* store_token(u, a, token_data, scope)
StoreToken ==
    /\ ncalls < MaxCalls
    /\ issued < MaxTokens
    /\ \E u \in FirstOr(ncalls = 0, "u1", Users), a \in AthleteIds, e \in 0..MaxTime, scope \in Scopes :
       \E complete \in BOOLEAN :
         LET full == TokenPayload(issued + 1, e, a)
             td == IF complete THEN full ELSE without_expires_at(full)
             out == store_token(u, a, td, scope, session, locked)
         IN  /\ IF session
                THEN /\ txn' = [txn EXCEPT !.refresh_tokens = insert(@, out.rt),
                                           !.access_tokens = insert(@, out.at)]
                     /\ UNCHANGED <<refresh_tokens, access_tokens>>
                ELSE /\ refresh_tokens' = IF out.cc.commits > 0
                                          THEN insert(refresh_tokens, out.rt)
                                          ELSE refresh_tokens
                     /\ access_tokens' = IF out.cc.commits > 0
                                         THEN insert(access_tokens, out.at)
                                         ELSE access_tokens
                     /\ UNCHANGED txn
             /\ last_token' = IF out.raised = "" THEN [last_token EXCEPT ![u] = td]
                              ELSE last_token
             /\ CallReturns("store_token", u, out.raised, None, out.cc, out.rt)
    /\ issued' = issued + 1
    /\ UNCHANGED <<now, remote, activities, athletes, session, pending, run_vars,
                   last_athlete, export>>

\* lookup_access_token(u): the not-found return comes before _close_curs
LookupAccessToken ==
    /\ ncalls < MaxCalls
    /\ \E u \in FirstOr(ncalls = 0, "u1", Users) : \E got \in lookup_access_token(visible_access_tokens, u) :
         CallReturns("lookup_access_token", u, "", got,
                     IF got = None THEN not_closed ELSE close_curs(session), <<>>)
    /\ UNCHANGED <<now, issued, remote, store_vars, run_vars, last_athlete, last_token,
                   txn, export>>

\* lookup_refresh_token(u): the not-found return and the TypeError come before
\* a connection is closed
LookupRefreshToken ==
    /\ ncalls < MaxCalls
    /\ \E u \in FirstOr(ncalls = 0, "u1", Users) : \E res \in lookup_refresh_token(visible_refresh_tokens, u) :
         CallReturns("lookup_refresh_token", u, res.raised, res.value,
                     IF res.raised # "" \/ res.value = None THEN not_closed
                     ELSE close_curs(session), <<>>)
    /\ UNCHANGED <<now, issued, remote, store_vars, run_vars, last_athlete, last_token,
                   txn, export>>

\* store_activity(act, u), for an activity the cache does not hold
StoreActivity ==
    /\ ncalls < MaxCalls
    /\ \E u \in FirstOr(ncalls = 0, "u1", Users), id \in ActivityIds :
         LET act == [id |-> id, v |-> remote]
             row == activity_row(act, u, now)
         IN  /\ select_activity(visible_activities, id, u) = <<>>
             /\ IF locked
                THEN /\ CallReturns("store_activity", u, "OperationalError", None,
                                    not_closed, <<>>)
                     /\ UNCHANGED <<activities, pending>>
                ELSE /\ CallReturns("store_activity", u, "", id, close_curs(session), <<>>)
                     /\ IF session
                        THEN pending' = Append(pending, row) /\ UNCHANGED activities
                        ELSE activities' = Append(activities, row) /\ UNCHANGED pending
    /\ UNCHANGED <<now, issued, remote, access_tokens, refresh_tokens, athletes, session,
                   run_vars, last_athlete, last_token, txn, export>>

\* get_activity(id, u)
GetActivity ==
    /\ ncalls < MaxCalls
    /\ \E u \in FirstOr(ncalls = 0, "u1", Users), id \in ActivityIds :
       \E got \in get_activity(visible_activities, id, u) :
         CallReturns("get_activity", u, "", got, close_curs(session), <<>>)
    /\ UNCHANGED <<now, issued, remote, store_vars, run_vars, last_athlete, last_token,
                   txn, export>>

\* store_athlete(athlete, u)
StoreAthlete ==
    /\ ncalls < MaxCalls
    /\ \E u \in FirstOr(ncalls = 0, "u1", Users), a \in AthleteIds :
         LET athlete == [id |-> a, v |-> remote]
             stored_row == [user_id |-> u, last_updated |-> now,
                            raw |-> json_dumps(athlete)]
         IN  IF locked
             THEN /\ CallReturns("store_athlete", u, "OperationalError", None,
                                 not_closed, <<>>)
                  /\ UNCHANGED <<athletes, txn, last_athlete>>
             ELSE /\ CallReturns("store_athlete", u, "", a, close_curs(session), <<>>)
                  /\ last_athlete' = [last_athlete EXCEPT ![a] = stored_row]
                  /\ IF session
                     THEN /\ txn' = [txn EXCEPT !.athletes =
                                        store_athlete(txn.athletes, athlete, u, now)]
                          /\ UNCHANGED athletes
                     ELSE /\ athletes' = store_athlete(athletes, athlete, u, now)
                          /\ UNCHANGED txn
    /\ UNCHANGED <<now, issued, remote, access_tokens, refresh_tokens, activities, session,
                   pending, run_vars, last_token, export>>

\* store_activity(act, id) for an activity that carries a private note
StoreNotedActivity ==
    /\ ncalls < MaxCalls
    /\ ~session
    /\ \E id \in ExportIds, a \in ActivityIds, note \in Notes \cup {<<>>} :
         LET act == IF note = <<>> THEN [id |-> a, v |-> remote]
                    ELSE [id |-> a, v |-> remote, private_note |-> note]
         IN  /\ select_activity(activities, a, id) = <<>>
             /\ activities' = Append(activities, activity_row(act, id, now))
             /\ CallReturns("store_activity", id, "", a, close_curs(session), <<>>)
    /\ UNCHANGED <<now, issued, remote, access_tokens, refresh_tokens, athletes, session,
                   pending, run_vars, last_athlete, last_token, txn, export>>

\* main.py:148: the records of get_strava_activities(args.id) are consumed; the
\* cursor of storage.get_activities is closed when its loop has run to the end
Export ==
    /\ ncalls < MaxCalls
    /\ ~session
    /\ \E id \in ExportIds :
         LET out == get_strava_activities(get_activities(activities, id))
         IN  /\ export' = [user_id |-> id, raised |-> out.raised, records |-> out.records]
             /\ CallReturns("get_strava_activities", id, out.raised, None,
                            IF out.raised = "" THEN close_curs(session) ELSE not_closed,
                            <<>>)
    /\ UNCHANGED <<now, issued, remote, store_vars, run_vars, last_athlete, last_token,
                   txn>>

ExportNext ==
    \/ Tick
    \/ StoreNotedActivity
    \/ Export

\* the export, after any sequence of activities stored
ExportSpec == Init /\ [][ExportNext]_vars

TokenNext ==
    \/ Tick
    \/ StoreToken
    \/ LookupAccessToken
    \/ LookupRefreshToken

\* the token store under any sequence of direct calls
TokenSpec == Init /\ [][TokenNext]_vars

StoreNext ==
    \/ Enter
    \/ ExitSession
    \/ Finalize
    \/ StoreToken
    \/ LookupAccessToken
    \/ LookupRefreshToken
    \/ StoreActivity
    \/ GetActivity
    \/ StoreAthlete

\* the store under any sequence of direct calls, inside and outside guarded sessions
StoreSpec == Init /\ [][StoreNext]_vars

Next ==
    \/ Tick
    \/ RemoteChange
    \/ Invoke
    \/ Acquire
    \/ Refresh
    \/ Athlete
    \/ FetchPage
    \/ FetchDetail
    \/ ProcessActivity
    \/ Exit

Spec == Init /\ [][Next]_vars

\* ------------------------------------------------------------------ claims
\* the calls of the run so far that are calls of op
CallsOf(op) == SelectSeq(trace, LAMBDA c : c.op = op)
Called(op) == CallsOf(op) # <<>>
Running == pc # "idle"

\* the committed rows of earlier syncs of the run's user: what this run stored
\* itself is committed under an id in stored
EarlierRows == SelectSeq(activities, LAMBDA r : r.user_id = uid /\ r.id \notin stored)

\* C1: an activity an earlier sync stored is a cache hit in a later sync, and the
\* later sync issues no activity-detail request for its id
C1_CachedActivityNotRefetched ==
    Running =>
      \A i \in DOMAIN EarlierRows : \A k \in DOMAIN trace :
        trace[k].arg = EarlierRows[i].id =>
          /\ trace[k].op # "detail"
          /\ trace[k].op = "get_activity" => trace[k].ok

\* C2: a run that found an expired stored token calls the remote refresh_token with
\* the stored refresh token and starts no interactive authorization
C2_ExpiredTokenRefreshes ==
    (branch = "ExpiredToken" /\ pc # "refresh") =>
      /\ Called("refresh_token")
      /\ \A k \in DOMAIN CallsOf("refresh_token") :
           \E i \in DOMAIN refresh_tokens :
             /\ refresh_tokens[i].user_id = uid
             /\ json_loads(refresh_tokens[i].raw).refresh_token
                  = CallsOf("refresh_token")[k].arg
      /\ ~Called("request_access_url")
      /\ ~Called("exchange_token")

\* C3: the ExpiredToken transition ends in ValidToken: the run goes on (or the
\* remote service refused the refresh), and the token it goes on with is the
\* payload the refresh returned, not expired and not the one found
C3_RefreshEndsInValidToken ==
    (branch = "ExpiredToken" /\ pc # "refresh") =>
      /\ err \in {"", "HTTPError"}
      /\ err = "" =>
           /\ token_data # found
           /\ token_data.token = last_token[uid]
           /\ ~(now > token_data.token.expires_at)

\* C4: after any sequence of store_token calls for a user, lookup_access_token and
\* lookup_refresh_token each return the payload of the latest store_token call
\* (whenever a lookup for a user with stored tokens returns, it returns that payload)
C4_LookupReturnsLatestToken ==
    (ret.op \in {"lookup_access_token", "lookup_refresh_token"}
       /\ last_token[ret.user_id] # None
       /\ ret.raised = "") =>
      /\ ret.value # None
      /\ ret.value.token = last_token[ret.user_id]

\* C5: a redirect URL with error=access_denied makes handle_access_response raise
\* with no exchange_token call and no store_token call, whatever else it carries
C5_AccessDeniedStopsExchange ==
    (redirect_url # None /\ redirect_url.error = "access_denied") =>
      /\ pc = "failed"
      /\ ~Called("exchange_token")
      /\ ~Called("store_token")

\* C6: a run that found no stored access token takes the NoToken branch: it
\* prompts with the authorization URL before any token exchange, and neither
\* looks up a refresh token nor calls the remote refresh_token
C6_NoTokenNeverRefreshes ==
    (Running /\ found = None) =>
      /\ branch = "NoToken"
      /\ ~Called("lookup_refresh_token")
      /\ ~Called("refresh_token")
      /\ pc # "acquire" => Called("request_access_url")
      /\ \A k \in DOMAIN trace :
           trace[k].op = "exchange_token" =>
             \E j \in 1..(k - 1) : trace[j].op = "request_access_url"

\* a run without a stored token that was authorized and goes on to the athlete
C6_Witness ==
    /\ found = None
    /\ pc = "athlete"
    /\ Called("exchange_token")
    /\ Called("store_token")

RECURSIVE Flatten(_)
Flatten(ps) == IF ps = <<>> THEN <<>> ELSE Head(ps) \o Flatten(Tail(ps))

Args(calls) == [i \in DOMAIN calls |-> calls[i].arg]
IsPrefix(s, t) == Len(s) <= Len(t) /\ s = SubSeq(t, 1, Len(s))

\* C7: the pages are requested as 1, 2, ... in that order, every item of the
\* non-empty pages is yielded in order exactly once, the first empty page is the
\* last page requested and ends the listing: n non-empty pages and the empty one
\* make n + 1 page requests
C7_PaginationStopsAtFirstEmptyPage ==
    LET reqs == CallsOf("page")
        answered == SelectSeq(reqs, LAMBDA c : c.ok)
        yields == Args(CallsOf("yield"))
    IN  /\ \A i \in DOMAIN reqs : reqs[i].arg = i
        /\ Len(answered) = Len(listed)
        /\ \A i \in DOMAIN listed : listed[i] = <<>> => (i = Len(listed) /\ pc = "done")
        /\ IsPrefix(yields, Flatten(listed))
        /\ pc = "page" => yields = Flatten(listed)
        /\ pc = "done" =>
             /\ listed # <<>>
             /\ listed[Len(listed)] = <<>>
             /\ Len(reqs) = Len(listed)
             /\ yields = Flatten(listed)

\* the listing [A,B],[C],[]: 3 items yielded, 3 pages requested
C7_Witness ==
    /\ pc = "done"
    /\ listed = << <<1, 2>>, <<2>>, <<>> >>
    /\ Args(CallsOf("yield")) = <<1, 2, 2>>
    /\ Args(CallsOf("page")) = <<1, 2, 3>>

\* the rows of the activity cache: committed, and inserted in the open session
CacheRows == activities \o pending

\* C8: the activity cache is write-once: there is never more than one row per
\* (id, user_id), and a row, once inserted, stays as it is: same raw payload,
\* same last_updated
C8_ActivityCacheWriteOnce ==
    /\ [](\A i, j \in DOMAIN CacheRows :
            (CacheRows[i].id = CacheRows[j].id
               /\ CacheRows[i].user_id = CacheRows[j].user_id) => i = j)
    /\ [][\A i \in DOMAIN CacheRows :
            /\ i \in DOMAIN CacheRows'
            /\ CacheRows'[i] = CacheRows[i]]_vars

\* a later sync ends that listed twice an activity that is cached, the remote
\* record having changed since it was stored
C8_Witness ==
    /\ pc = "done"
    /\ Args(CallsOf("yield")) = <<1, 2, 2>>
    /\ \E i \in DOMAIN EarlierRows :
         /\ EarlierRows[i].id = 2
         /\ json_loads(EarlierRows[i].raw).v # remote

\* C9: per athlete_id there is exactly one row once store_athlete was called for
\* it (none before), and the row is the one of the latest call: its user_id, its
\* raw payload, its last_updated; a call for another athlete_id leaves it alone
C9_AthleteUpsert ==
    \A a \in AthleteIds :
      LET rows == SelectSeq(athletes, LAMBDA r : r.athlete_id = a)
          last == last_athlete[a]
      IN  IF last = None
          THEN rows = <<>>
          ELSE /\ Len(rows) = 1
               /\ rows[1].user_id = last.user_id
               /\ rows[1].raw = last.raw
               /\ rows[1].last_updated = last.last_updated

\* the run has stored the athlete of its token, whom an earlier run of another
\* user, with a token of the same athlete, had stored before the remote records
\* changed (that run went on to store an activity)
C9_Witness ==
    /\ Called("store_athlete")
    /\ \E i \in DOMAIN athletes :
         /\ athletes[i].athlete_id = token_data.token.athlete.id
         /\ athletes[i].user_id = uid
         /\ json_loads(athletes[i].raw).v = remote
    /\ \E i \in DOMAIN access_tokens, j \in DOMAIN activities :
         /\ access_tokens[i].user_id # uid
         /\ access_tokens[i].athlete_id = token_data.token.athlete.id
         /\ activities[j].user_id = access_tokens[i].user_id
         /\ json_loads(activities[j].raw).v # remote

\* C10: a remote request answered with an error status is the last call of the
\* run (no retry, no further request), the run ends with that error, and what the
\* run had stored is committed: get_activity finds it from then on
C10_HttpErrorAbortsAndCommits ==
    /\ \A k \in DOMAIN trace :
         (~trace[k].ok /\ trace[k].op \in {"page", "detail"}) =>
           /\ k = Len(trace)
           /\ pc = "failed"
           /\ err = "HTTPError"
    /\ pc = "failed" =>
         /\ ~session
         /\ pending = <<>>
         /\ \A id \in stored : None \notin get_activity(activities, id, uid)

\* a detail fetch or a listing page fails after the run has stored an activity
C10_Witness ==
    /\ pc = "failed"
    /\ err = "HTTPError"
    /\ stored # {}
    /\ trace[Len(trace)].op \in {"page", "detail"}

\* C11: lookup_refresh_token has the shape of lookup_access_token: it never
\* raises, with a row stored for the user it returns the triple (athlete_id,
\* scope, token payload), with none it returns the not-found value, and it is
\* absent exactly when lookup_access_token is absent
C11_LookupRefreshTokenShape ==
    ret.op = "lookup_refresh_token" =>
      /\ ret.raised = ""
      /\ (ret.value = None) <=> (select_user(refresh_tokens, ret.user_id) = <<>>)
      /\ (ret.value = None) <=> (None \in lookup_access_token(access_tokens, ret.user_id))
      /\ ret.value # None =>
           \E i \in DOMAIN refresh_tokens :
             /\ refresh_tokens[i].user_id = ret.user_id
             /\ ret.value.athlete_id = refresh_tokens[i].athlete_id
             /\ ret.value.scope = refresh_tokens[i].scope
             /\ ret.value.token = json_loads(refresh_tokens[i].raw)

\* a step that is a direct call of a storage operation
IsCall == ncalls' # ncalls

\* the committed tables
Committed == <<refresh_tokens, access_tokens, activities, athletes>>

\* C12: inside a guarded session every storage operation runs on the session's
\* connection (no other connection is opened), none commits or closes it and
\* nothing is committed before the exit; the exit, normal or by exception,
\* makes the one commit, closes the connection and returns the store to
\* per-call mode
C12_SessionOneConnectionOneCommit ==
    /\ [](session => (con.open /\ con.commits = 0))
    /\ [](ret.con = "session" => (ret.commits = 0 /\ ~ret.closed))
    /\ [][(session /\ IsCall) =>
            /\ ret'.con = "session"
            /\ open_cons' = open_cons
            /\ session'
            /\ Committed' = Committed]_vars
    /\ [][(session /\ ~session') =>
            /\ con' = [open |-> FALSE, commits |-> 1]
            /\ refresh_tokens' = refresh_tokens \o txn.refresh_tokens
            /\ access_tokens' = access_tokens \o txn.access_tokens
            /\ activities' = activities \o pending
            /\ athletes' = txn.athletes]_vars
    /\ [][(~session /\ IsCall) => ret'.con = "own"]_vars

\* a session has been exited by the KeyError of a store_token call made in it:
\* the exit has committed the refresh-token row the call had inserted, and
\* closed the connection
C12_Witness ==
    /\ ~session
    /\ con = [open |-> FALSE, commits |-> 1]
    /\ ret.con = "session"
    /\ ret.op = "store_token"
    /\ ret.raised = "KeyError"
    /\ refresh_tokens # <<>>
    /\ access_tokens = <<>>

\* C13: a run that has a valid token fetches the athlete profile and stores it
\* before it requests the first listing page, whichever branch the token came
\* by and whether or not the athlete is stored already: every page request is
\* preceded by an answered get_athlete_info and a store_athlete after it, and
\* the athlete's row then carries the run's user and the profile just fetched
C13_AthleteStoredBeforeListing ==
    /\ LET at(op) == {k \in DOMAIN trace : trace[k].op = op}
       IN  \A k \in at("page") :
             \E i \in at("get_athlete_info"), j \in at("store_athlete") :
               i < j /\ j < k /\ trace[i].ok
    /\ pc \in {"page", "detail", "check", "done"} =>
         /\ Len(CallsOf("get_athlete_info")) = 1
         /\ Len(CallsOf("store_athlete")) = 1
         /\ CallsOf("store_athlete")[1].arg = token_data.token.athlete.id
         /\ \E i \in DOMAIN athletes :
              /\ athletes[i].athlete_id = token_data.token.athlete.id
              /\ athletes[i].user_id = uid
              /\ athletes[i].last_updated = now
              /\ json_loads(athletes[i].raw).v = remote
    /\ (Called("get_athlete_info") /\ pc # "failed") => Called("store_athlete")

\* a run that found its token valid is listing; an earlier run of the same user
\* had stored the athlete and an activity before the remote records changed
C13_Witness ==
    /\ branch = "ValidToken"
    /\ Called("page")
    /\ pc = "detail"
    /\ \E j \in DOMAIN activities :
         /\ activities[j].user_id = uid
         /\ json_loads(activities[j].raw).v # remote

\* the rows of r stay as they are and one row, of user u, is appended
AppendsOneRow(r, r2, u) ==
    /\ Len(r2) = Len(r) + 1
    /\ SubSeq(r2, 1, Len(r)) = r
    /\ r2[Len(r2)].user_id = u

\* C14: store_token appends: a call that returns has added exactly one row for
\* its user to access_tokens and exactly one to refresh_tokens, and has left
\* every row that was there unchanged (so n calls for a user make n rows of
\* each kind for that user)
C14_StoreTokenAppends ==
    [][(IsCall /\ ret'.op = "store_token" /\ ret'.raised = "") =>
         /\ AppendsOneRow(visible_access_tokens, visible_access_tokens', ret'.user_id)
         /\ AppendsOneRow(visible_refresh_tokens, visible_refresh_tokens', ret'.user_id)
         /\ \A u \in Users :
              /\ Len(select_user(visible_access_tokens', u))
                   = Len(select_user(visible_access_tokens, u))
                       + (IF u = ret'.user_id THEN 1 ELSE 0)
              /\ Len(select_user(visible_refresh_tokens', u))
                   = Len(select_user(visible_refresh_tokens, u))
                       + (IF u = ret'.user_id THEN 1 ELSE 0)]_vars

\* two store_token calls for one user have returned: two rows of each kind
C14_Witness ==
    /\ ret.op = "store_token"
    /\ ret.raised = ""
    /\ ~session
    /\ Len(select_user(access_tokens, ret.user_id)) = 2
    /\ Len(select_user(refresh_tokens, ret.user_id)) = 2

\* C17: outside a guarded session a storage operation closes the connection it
\* opened by the time it is left, on every return path: no connection opened
\* for a call is open after the call
C17_PerCallConnectionClosed ==
    /\ (ret.con = "own" /\ ret.raised = "") => ret.closed
    /\ \A i \in DOMAIN open_cons : open_cons[i].raised # ""

\* the committed token rows of user u in a table
RowsOf(table, u) == Len(select_user(table, u))

\* C18 as stated: in every committed state a user has as many refresh_tokens
\* rows as access_tokens rows; a store_token call that fails partway leaves
\* neither row committed
C18_TokenPairCommittedTogether ==
    \A u \in Users : RowsOf(refresh_tokens, u) = RowsOf(access_tokens, u)

\* C18, outside a guarded session: every step taken there (a store_token call
\* that returns or raises, the finalizer closing the connection a failed call
\* left open) changes the committed refresh_tokens rows and the committed
\* access_tokens rows of a user by the same number: both rows or neither
C18_PerCallTokenPairAllOrNothing ==
    [][(~session /\ ~session') =>
         \A u \in Users :
           RowsOf(refresh_tokens', u) - RowsOf(refresh_tokens, u)
             = RowsOf(access_tokens', u) - RowsOf(access_tokens, u)]_vars

\* a store_token call outside a session failed on a payload without expires_at
\* after its refresh-token insert: the connection it left holds the insert,
\* uncommitted
C18_Witness ==
    /\ ~session
    /\ ret.op = "store_token"
    /\ ret.raised = "KeyError"
    /\ ret.con = "own"
    /\ \E i \in DOMAIN open_cons :
         /\ open_cons[i].op = "store_token"
         /\ open_cons[i].refresh_tokens # <<>>
         /\ open_cons[i].refresh_tokens[1].user_id = ret.user_id

\* the activities stored for the account id
StoredFor(id) == SelectSeq(activities, LAMBDA r : r.user_id = id)

\* 3.5 and 1.0 as float yields them
ThreeAndAHalf == [raised |-> "", whole |-> 3, frac |-> <<"5">>]
OnePointZero == [raised |-> "", whole |-> 1, frac |-> <<>>]

\* C15: get_strava_activities(user_id) does not raise and yields one record per
\* activity stored for the user, in order; the note "knee:3.5\nback:1" gives
\* pains.knee = 3.5 and pains.back = 1.0, and a note that is no valid pain
\* annotation gives a record without pains fields
C15_ExportOneRecordPerActivity ==
    ret.op = "get_strava_activities" =>
      LET rows == StoredFor(export.user_id)
      IN  /\ export.raised = ""
          /\ Len(export.records) = Len(rows)
          /\ \A i \in DOMAIN export.records :
               LET rec == json_loads(rows[i].raw)
                   out == export.records[i]
               IN  /\ out.id = rec.id
                   /\ ("private_note" \in DOMAIN rec /\ rec.private_note = KneeBack) =>
                        /\ DOMAIN out.pains = {<<"k", "n", "e", "e">>, <<"b", "a", "c", "k">>}
                        /\ out.pains[<<"k", "n", "e", "e">>] = ThreeAndAHalf
                        /\ out.pains[<<"b", "a", "c", "k">>] = OnePointZero
                   /\ ("private_note" \notin DOMAIN rec \/ rec.private_note = NoPainNote) =>
                        out.pains = <<>>

\* the stored token the run found is not expired: now is not past its expires_at
FoundValid(td, ts) == td # None /\ ~(ts > td.token.expires_at)

\* C16: a run that finds the stored access token of its user not expired goes
\* on directly: it takes the ValidToken branch, prompts for no authorization,
\* calls neither exchange_token nor refresh_token (nor looks up a refresh
\* token) nor store_token, and no step of it changes the token tables
C16_ValidTokenProceedsDirectly ==
    /\ []((Running /\ FoundValid(found, now)) =>
            /\ branch = "ValidToken"
            /\ pc \notin {"acquire", "refresh"}
            /\ ~Called("request_access_url")
            /\ ~Called("exchange_token")
            /\ ~Called("lookup_refresh_token")
            /\ ~Called("refresh_token")
            /\ ~Called("store_token"))
    /\ [][(pc' # "idle" /\ FoundValid(found', now')) =>
            UNCHANGED <<access_tokens, refresh_tokens>>]_vars

\* a run that found its token valid, at the very time the token expires at, has
\* listed and ended
C16_Witness ==
    /\ pc = "done"
    /\ FoundValid(found, now)
    /\ now = found.token.expires_at
    /\ Called("store_athlete")
    /\ access_tokens # <<>>

====
